---- MODULE Spec2Model ----
(***************************************************************************)
(* Lulu Recipe Hub API (src/main.py, src/schemas.py).                      *)
(*                                                                         *)
(* The document store is modelled as three collections, each a sequence   *)
(* of documents in natural (insertion) order.  Text is modelled as a       *)
(* sequence of code points so that strip(), lower(), string comparison and *)
(* f-string formatting are computed, not assumed.  Floating point          *)
(* quantities are modelled as exact fixed-point integers in units of       *)
(* 0.0001 (the literal of main.py:293), so 1.0 is Scale.                   *)
(***************************************************************************)
EXTENDS Integers, Sequences, FiniteSets, TLC

VARIABLES recipe, pantryitem, mealplan, nextId, response, pc, existing

vars == <<recipe, pantryitem, mealplan, nextId, response, pc, existing>>

(***************************************************************************)
(* Bounds of the model.                                                    *)
(***************************************************************************)
MaxRecipes == 2
MaxPantry == 2
MaxId == 2
\* |quantity| of a pantry row stays within MaxQty * 1.0
MaxQty == 2

(***************************************************************************)
(* Values.                                                                 *)
(***************************************************************************)
\* Python None where a string is expected (no text contains code point -1).
None == <<-1>>
\* Optional[float]: <<>> is None, <<q>> is the number q.
NoQty == <<>>
\* 1.0 in fixed point: the resolution is the 0.0001 of main.py:293.
Scale == 100 * 100
\* The 0.0001 of main.py:293, in fixed point.
Eps == 1

\* Python truthiness of an Optional[str]: None and "" are falsy.
Truthy(s) == s # None /\ s # <<>>

(***************************************************************************)
(* str.strip(), str.lower() and string comparison.                         *)
(***************************************************************************)
IsSpace(c) == c \in {9, 10, 11, 12, 13, 32}

Lower(c) == IF c \in 65..90 THEN c + 32 ELSE c

RECURSIVE LStrip(_)
LStrip(s) == IF s = <<>> THEN s
             ELSE IF IsSpace(Head(s)) THEN LStrip(Tail(s)) ELSE s

RECURSIVE RStrip(_)
RStrip(s) == IF s = <<>> THEN s
             ELSE IF IsSpace(s[Len(s)]) THEN RStrip(SubSeq(s, 1, Len(s) - 1)) ELSE s

Strip(s) == RStrip(LStrip(s))

LowerStr(s) == [i \in 1..Len(s) |-> Lower(s[i])]

\* x.strip().lower()
Normalize(s) == LowerStr(Strip(s))

\* Python's a < b on str: lexicographic by code point, a proper prefix is smaller.
RECURSIVE StrLess(_, _)
StrLess(a, b) ==
    IF b = <<>> THEN FALSE
    ELSE IF a = <<>> THEN TRUE
    ELSE IF Head(a) # Head(b) THEN Head(a) < Head(b)
    ELSE StrLess(Tail(a), Tail(b))

(***************************************************************************)
(* ObjectId: an _id is a positive integer n, its str() is 24 hex digits.   *)
(***************************************************************************)
OidStr(n) == [i \in 1..24 |-> IF i = 24 THEN 48 + n ELSE 48]

IsHex(c) == c \in 48..57 \/ c \in 65..70 \/ c \in 97..102

\* ObjectId.is_valid on a str: exactly 24 hex digits.
IsValidOid(s) == s # None /\ Len(s) = 24 /\ \A i \in 1..24 : IsHex(s[i])

\* the documents (positions) of a collection with a given _id
ById(coll, id) == {i \in DOMAIN coll : coll[i]._id = id}

\* the mealplan documents (positions) of a week
ByWeek(coll, week_start) == {i \in DOMAIN coll : coll[i].week_start = week_start}

\* the first document, in natural order, among those that match a filter
First(hits) == CHOOSE i \in hits : \A j \in hits : i <= j

\* db[coll].find_one(filter): the first matching document, or None (here <<>>)
FindOne(coll, hits) == IF hits = {} THEN <<>> ELSE <<coll[First(hits)]>>

\* update_one: the change is made to the first matching document only
\* (changed[i] is document i after the $set or $inc)
UpdateOne(coll, hits, changed) ==
    IF hits = {} THEN coll ELSE [coll EXCEPT ![First(hits)] = changed[First(hits)]]

\* delete_one: removes the first matching document
DeleteOne(coll, hits) ==
    IF hits = {} THEN coll
    ELSE SubSeq(coll, 1, First(hits) - 1) \o SubSeq(coll, First(hits) + 1, Len(coll))

\* database.create_document: insert_one with a fresh _id.
create_document(coll, data, id) == Append(coll, [_id |-> id] @@ data)

(***************************************************************************)
(* suggest_recipes (main.py:183-205).                                      *)
(***************************************************************************)
\* main.py:185
Have(pantry) == {Normalize(pantry[i].name) : i \in DOMAIN pantry}

IngAvailableNoStrip(ing, have) ==
    \/ Normalize(ing.name) \in have
    \/ \E k \in 1..Len(ing.substitutions) : LowerStr(ing.substitutions[k]) \in have

\* main.py:190-192
IngAvailable(ing, have) ==
    \/ Normalize(ing.name) \in have
    \/ \E k \in 1..Len(ing.substitutions) : Normalize(ing.substitutions[k]) \in have

\* main.py:188-194
RECURSIVE Needed(_, _)
Needed(ings, have) ==
    IF ings = <<>> THEN <<>>
    ELSE (IF IngAvailable(Head(ings), have) THEN <<>> ELSE <<Head(ings).name>>)
         \o Needed(Tail(ings), have)

\* main.py:195-203
Suggestion(doc, have) ==
    LET needed == Needed(doc.ingredients, have)
    IN [id |-> OidStr(doc._id), title |-> doc.title, needed |-> needed,
        can_make |-> (Len(needed) = 0), missing_count |-> Len(needed)]

KeyLessCountOnly(x, y) == x.missing_count < y.missing_count

\* the sort key of main.py:204 compared as Python compares tuples
KeyLess(x, y) ==
    \/ x.missing_count < y.missing_count
    \/ x.missing_count = y.missing_count /\ StrLess(x.title, y.title)

\* one step of a stable sort: x goes after every element that is not greater
RECURSIVE InsertSorted(_, _)
InsertSorted(s, x) ==
    IF s = <<>> THEN <<x>>
    ELSE IF KeyLess(x, Head(s)) THEN <<x>> \o s
    ELSE <<Head(s)>> \o InsertSorted(Tail(s), x)

\* list.sort(key=...) : stable
RECURSIVE SortSuggestions(_)
SortSuggestions(s) ==
    IF s = <<>> THEN <<>>
    ELSE InsertSorted(SortSuggestions(SubSeq(s, 1, Len(s) - 1)), s[Len(s)])

\* main.py:184-205
Suggestions(recipes, pantry) ==
    LET have == Have(pantry)
    IN SortSuggestions([i \in 1..Len(recipes) |-> Suggestion(recipes[i], have)])

(***************************************************************************)
(* Request payloads.                                                       *)
(***************************************************************************)
Ing(n, q, u, subs) == [name |-> n, quantity |-> q, unit |-> u, substitutions |-> subs]

\* "g" and the text "None"
UnitG == <<103>>
UnitNoneText == <<78, 111, 110, 101>>

\* Recipe payloads (schemas.Recipe), titles "ab", "a", "B", "a":
\*   "ab": A                      (no quantity, no unit)
\*   "a" : b 1.0 g (or " A"), "a " 0
\*   "B" : c (or "A "), b 1.0 g, A 2.0
\*   "a" : no ingredients
RecipePayloads ==
    { [title |-> <<97, 98>>,
       ingredients |-> << Ing(<<65>>, NoQty, None, <<>>) >>],
      [title |-> <<97>>,
       ingredients |-> << Ing(<<98>>, <<Scale>>, UnitG, << <<32, 65>> >>),
                          Ing(<<97, 32>>, <<0>>, None, <<>>) >>],
      [title |-> <<66>>,
       ingredients |-> << Ing(<<99>>, NoQty, None, << <<65, 32>> >>),
                          Ing(<<98>>, <<Scale>>, UnitG, <<>>),
                          Ing(<<65>>, <<2 * Scale>>, None, <<>>) >>],
      [title |-> <<97>>, ingredients |-> <<>>] }

Item(n, q, u) == [name |-> n, quantity |-> q, unit |-> u]

\* PantryItem payloads (schemas.PantryItem) of the pantry requests:
\* names "A", "b"; quantities 1.0, -1.0; unit absent or "g"
PantryPayloads ==
    { Item(n, q, u) : n \in {<<65>>, <<98>>}, q \in {Scale, -Scale}, u \in {None, UnitG} }

\* PantryItem payloads of the suggestion requests: "A" 0, " a" 1.0 g, "b " -1.0
SuggestPantryPayloads ==
    { Item(<<65>>, 0, None), Item(<<32, 97>>, Scale, UnitG), Item(<<98, 32>>, -Scale, None) }

(***************************************************************************)
(* Initial state: empty collections, no request in flight.                 *)
(***************************************************************************)
Procs == {1, 2}

Idle == [at |-> "idle"]

Init ==
    /\ recipe = <<>>
    /\ pantryitem = <<>>
    /\ mealplan = <<>>
    /\ nextId = [recipe |-> 1, pantryitem |-> 1, mealplan |-> 1]
    /\ response = [op |-> "none"]
    /\ pc = [p \in Procs |-> Idle]
    /\ existing = [p \in Procs |-> <<>>]

(***************************************************************************)
(* Recipes (main.py:94-125).                                               *)
(***************************************************************************)
\* main.py:95-97
create_recipe(payload) ==
    /\ Len(recipe) < MaxRecipes
    /\ nextId.recipe <= MaxId
    /\ recipe' = create_document(recipe, payload, nextId.recipe)
    /\ nextId' = [nextId EXCEPT !.recipe = @ + 1]
    /\ response' = [op |-> "create_recipe", id |-> OidStr(nextId.recipe)]
    /\ UNCHANGED <<pantryitem, mealplan, pc, existing>>

\* main.py:112-118
update_recipe(id, payload) ==
    /\ recipe' = UpdateOne(recipe, ById(recipe, id),
                           [i \in DOMAIN recipe |-> payload @@ recipe[i]])
    /\ response' = IF ById(recipe, id) = {}
                   THEN [op |-> "update_recipe", status |-> 404]
                   ELSE [op |-> "update_recipe", status |-> "ok"]
    /\ UNCHANGED <<pantryitem, mealplan, nextId, pc, existing>>

\* main.py:122-125
delete_recipe(id) ==
    /\ recipe' = DeleteOne(recipe, ById(recipe, id))
    /\ response' = [op |-> "delete_recipe", status |-> "ok"]
    /\ UNCHANGED <<pantryitem, mealplan, nextId, pc, existing>>

(***************************************************************************)
(* Pantry (main.py:150-178).                                               *)
(***************************************************************************)
InRange(q) == -(MaxQty * Scale) <= q /\ q <= MaxQty * Scale

\* main.py:151-158
add_pantry_item(item) ==
    LET found == FindOne(pantryitem, {i \in DOMAIN pantryitem :
                         pantryitem[i].name = item.name /\ pantryitem[i].unit = item.unit})
    IN /\ IF found # <<>>
          THEN /\ InRange(found[1].quantity + item.quantity)
               /\ pantryitem' = UpdateOne(pantryitem, ById(pantryitem, found[1]._id),
                                    [i \in DOMAIN pantryitem |->
                                        [pantryitem[i] EXCEPT !.quantity = @ + item.quantity]])
               /\ response' = [op |-> "add_pantry_item", id |-> OidStr(found[1]._id)]
               /\ UNCHANGED nextId
          ELSE /\ Len(pantryitem) < MaxPantry
               /\ nextId.pantryitem <= MaxId
               /\ pantryitem' = create_document(pantryitem, item, nextId.pantryitem)
               /\ nextId' = [nextId EXCEPT !.pantryitem = @ + 1]
               /\ response' = [op |-> "add_pantry_item", id |-> OidStr(nextId.pantryitem)]
       /\ UNCHANGED <<recipe, mealplan, pc, existing>>

\* PantryUpdate (main.py:161-163): <<>> is an absent field
PantrySet(d, update) ==
    [d EXCEPT !.quantity = IF update.quantity = <<>> THEN @ ELSE update.quantity[1],
              !.unit = IF update.unit = None THEN @ ELSE update.unit]

\* main.py:167-172
update_pantry(id, update) ==
    /\ IF update.quantity = <<>> /\ update.unit = None
       THEN /\ response' = [op |-> "update_pantry", status |-> "noop"]
            /\ UNCHANGED pantryitem
       ELSE /\ pantryitem' = UpdateOne(pantryitem, ById(pantryitem, id),
                                       [i \in DOMAIN pantryitem |->
                                           PantrySet(pantryitem[i], update)])
            /\ response' = [op |-> "update_pantry", status |-> "ok"]
    /\ UNCHANGED <<recipe, mealplan, nextId, pc, existing>>

\* main.py:176-178
remove_pantry(id) ==
    /\ pantryitem' = DeleteOne(pantryitem, ById(pantryitem, id))
    /\ response' = [op |-> "remove_pantry", status |-> "ok"]
    /\ UNCHANGED <<recipe, mealplan, nextId, pc, existing>>

\* main.py:183-205
suggest_recipes ==
    /\ response' = [op |-> "suggest", suggestions |-> Suggestions(recipe, pantryitem)]
    /\ UNCHANGED <<recipe, pantryitem, mealplan, nextId, pc, existing>>

PantryUpdates ==
    { [quantity |-> <<>>, unit |-> None], [quantity |-> <<-Scale>>, unit |-> None],
      [quantity |-> <<>>, unit |-> UnitG] }

(***************************************************************************)
(* Meal plans (main.py:209-258).                                           *)
(***************************************************************************)
Days == <<"Mon", "Tue", "Wed", "Thu", "Fri", "Sat", "Sun">>

Slots == <<"breakfast", "lunch", "dinner">>

DaySet == {Days[i] : i \in DOMAIN Days}

SlotSet == {Slots[i] : i \in DOMAIN Slots}

\* main.py:216-218 and main.py:244
EmptyDays == [d \in DaySet |-> [s \in SlotSet |-> None]]

\* schemas.MealSlot: the three fields, each None when not given; other keys dropped
DumpSlot(slot) == [s \in SlotSet |-> IF s \in DOMAIN slot THEN slot[s] ELSE None]

\* schemas.MealPlan and plan.model_dump() (main.py:227): days is Dict[str, MealSlot]
ModelDump(plan) ==
    [week_start |-> plan.week_start,
     days |-> [d \in DOMAIN plan.days |-> DumpSlot(plan.days[d])]]

\* main.py:210-221
get_meal_plan(week_start) ==
    LET doc == FindOne(mealplan, ByWeek(mealplan, week_start))
    IN /\ response' = IF doc = <<>>
                      THEN [op |-> "get_meal_plan", week_start |-> week_start,
                            days |-> EmptyDays]
                      ELSE [op |-> "get_meal_plan", week_start |-> doc[1].week_start,
                            days |-> doc[1].days, id |-> OidStr(doc[1]._id)]
       /\ UNCHANGED <<recipe, pantryitem, mealplan, nextId, pc, existing>>

\* {"$set": data} on a mealplan document
SetPlan(d, data) == [d EXCEPT !.week_start = data.week_start, !.days = data.days]

\* main.py:228-232 and main.py:254-257: update the document found, else insert
WritePlan(found, data) ==
    IF found # <<>>
    THEN /\ mealplan' = UpdateOne(mealplan, ById(mealplan, found[1]._id),
                                  [i \in DOMAIN mealplan |-> SetPlan(mealplan[i], data)])
         /\ UNCHANGED nextId
    ELSE /\ mealplan' = create_document(mealplan, data, nextId.mealplan)
         /\ nextId' = [nextId EXCEPT !.mealplan = @ + 1]

\* the id returned by main.py:230 or main.py:232
WrittenId(found) == IF found # <<>> THEN found[1]._id ELSE nextId.mealplan

\* main.py:225-232, the request served without interruption
save_meal_plan(plan) ==
    LET found == FindOne(mealplan, ByWeek(mealplan, plan.week_start))
    IN /\ WritePlan(found, ModelDump(plan))
       /\ response' = [op |-> "save_meal_plan", id |-> OidStr(WrittenId(found))]
       /\ UNCHANGED <<recipe, pantryitem, pc, existing>>

\* main.py:238-241
Order(sug) ==
    LET can == SelectSeq(sug, LAMBDA x : x.can_make)
        others == SelectSeq(sug, LAMBDA x : ~x.can_make)
        both == can \o others
    IN [i \in 1..Len(both) |-> both[i].id]

FillSlotNoWrap(plan, d, s, idx, order) ==
    [plan EXCEPT ![d][s] = order[IF idx < Len(order) THEN idx + 1 ELSE Len(order)]]

\* main.py:250
FillSlot(plan, d, s, idx, order) ==
    [plan EXCEPT ![d][s] = order[(idx % Len(order)) + 1]]

\* main.py:249-251, from slot number si of day d on
RECURSIVE FillDay(_, _, _, _, _)
FillDay(plan, d, si, idx, order) ==
    IF si > Len(Slots) THEN plan
    ELSE FillDay(FillSlot(plan, d, Slots[si], idx, order), d, si + 1, idx + 1, order)

\* main.py:248-251, from day number di on
RECURSIVE FillDays(_, _, _, _)
FillDays(plan, di, idx, order) ==
    IF di > Len(Days) THEN plan
    ELSE FillDays(FillDay(plan, Days[di], 1, idx, order), di + 1, idx + Len(Slots), order)

\* main.py:238-251: the plan computed, given the suggestions
AutoFillDays(sug) ==
    IF Order(sug) = <<>> THEN EmptyDays ELSE FillDays(EmptyDays, 1, 0, Order(sug))

\* main.py:236-258, the request served without interruption
auto_fill_mealplan(week_start) ==
    LET sug == Suggestions(recipe, pantryitem)
        days == AutoFillDays(sug)
        found == FindOne(mealplan, ByWeek(mealplan, week_start))
    IN /\ IF Order(sug) = <<>>
          THEN /\ response' = [op |-> "auto_fill", arg |-> week_start, days |-> days]
               /\ UNCHANGED <<mealplan, nextId>>
          ELSE /\ WritePlan(found, [week_start |-> week_start, days |-> days])
               /\ response' = [op |-> "auto_fill", arg |-> week_start,
                               week_start |-> week_start, days |-> days]
       /\ UNCHANGED <<recipe, pantryitem, pc, existing>>

(***************************************************************************)
(* save_meal_plan and auto_fill_mealplan as two store calls each, so that  *)
(* requests served by different workers interleave between the find_one    *)
(* and the write that follows it.                                          *)
(***************************************************************************)
\* main.py:226-227
save_find(p, plan) ==
    /\ pc[p].at = "idle"
    /\ existing' = [existing EXCEPT
                       ![p] = FindOne(mealplan, ByWeek(mealplan, plan.week_start))]
    /\ pc' = [pc EXCEPT ![p] = [at |-> "save", data |-> ModelDump(plan)]]
    /\ UNCHANGED <<recipe, pantryitem, mealplan, nextId, response>>

\* main.py:228-232
save_write(p) ==
    /\ pc[p].at = "save"
    /\ WritePlan(existing[p], pc[p].data)
    /\ response' = [op |-> "save_meal_plan", id |-> OidStr(WrittenId(existing[p]))]
    /\ pc' = [pc EXCEPT ![p] = Idle]
    /\ existing' = [existing EXCEPT ![p] = <<>>]
    /\ UNCHANGED <<recipe, pantryitem>>

\* main.py:238-253
fill_find(p, week_start) ==
    LET sug == Suggestions(recipe, pantryitem)
        days == AutoFillDays(sug)
    IN /\ pc[p].at = "idle"
       /\ IF Order(sug) = <<>>
          THEN /\ response' = [op |-> "auto_fill", arg |-> week_start, days |-> days]
               /\ UNCHANGED <<pc, existing>>
          ELSE /\ existing' = [existing EXCEPT
                       ![p] = FindOne(mealplan, ByWeek(mealplan, week_start))]
               /\ pc' = [pc EXCEPT ![p] = [at |-> "fill",
                             data |-> [week_start |-> week_start, days |-> days]]]
               /\ UNCHANGED response
       /\ UNCHANGED <<recipe, pantryitem, mealplan, nextId>>

\* main.py:254-258
fill_write(p) ==
    /\ pc[p].at = "fill"
    /\ WritePlan(existing[p], pc[p].data)
    /\ response' = [op |-> "auto_fill", arg |-> pc[p].data.week_start,
                    week_start |-> pc[p].data.week_start, days |-> pc[p].data.days]
    /\ pc' = [pc EXCEPT ![p] = Idle]
    /\ existing' = [existing EXCEPT ![p] = <<>>]
    /\ UNCHANGED <<recipe, pantryitem>>

\* MealPlan payloads
Weeks == {"W1", "W2"}

Slot3(b, l, d) == [breakfast |-> b, lunch |-> l, dinner |-> d]

\* every day given, one recipe id in Monday's breakfast
OneSlot(v) == [EmptyDays EXCEPT !["Mon"]["breakfast"] = v]

\* every slot of every day holds v
AllSlots(v) == [d \in DaySet |-> [s \in SlotSet |-> v]]

\* the text "x": not an ObjectId
NotAnId == <<120>>

(***************************************************************************)
(* generate_shopping_list (main.py:263-296).                               *)
(***************************************************************************)
\* main.py:267-271: the set of truthy slot values of the plan
RecipeIds(days) ==
    {v \in {days[d][s] : d \in DOMAIN days, s \in SlotSet} : Truthy(v)}

\* the sequences without repetition that enumerate the set S
Enumerations(S) ==
    {f \in [1..Cardinality(S) -> S] : \A i, j \in DOMAIN f : f[i] = f[j] => i = j}

\* one visit per non-null slot, in the order of the plan
SlotList(days) ==
    SelectSeq([k \in 1..(Len(Days) * Len(Slots)) |->
                  LET d == Days[((k - 1) \div Len(Slots)) + 1]
                  IN IF d \in DOMAIN days
                     THEN days[d][Slots[((k - 1) % Len(Slots)) + 1]] ELSE None],
              Truthy)

VisitsPerSlot(days) == {SlotList(days)}

\* main.py:273: the orders in which "for rid in recipe_ids" may visit the set
\* (the iteration order of a Python set of str is not fixed)
Visits(days) == Enumerations(RecipeIds(days))

\* f"{name}|{unit}" (main.py:281, main.py:288): an absent unit prints as None
Key(name, unit) == name \o <<124>> \o (IF unit = None THEN UnitNoneText ELSE unit)

\* ing.get("quantity") or 1 (main.py:280): None and 0 are falsy
QtyOr1(q) == IF q = NoQty \/ q = <<0>> THEN Scale ELSE q[1]

AddIngredientOverwrite(acc, ing) ==
    LET key == Key(ing.name, ing.unit)
        qty == QtyOr1(ing.quantity)
    IN IF \E i \in DOMAIN acc : acc[i].key = key
       THEN LET k == CHOOSE i \in DOMAIN acc : acc[i].key = key
            IN [acc EXCEPT ![k].quantity = qty]
       ELSE Append(acc, [key |-> key, name |-> ing.name, unit |-> ing.unit,
                         quantity |-> qty])

\* main.py:278-284
AddIngredient(acc, ing) ==
    LET key == Key(ing.name, ing.unit)
        qty == QtyOr1(ing.quantity)
    IN IF \E i \in DOMAIN acc : acc[i].key = key
       THEN LET k == CHOOSE i \in DOMAIN acc : acc[i].key = key
            IN [acc EXCEPT ![k].quantity = @ + qty]
       ELSE Append(acc, [key |-> key, name |-> ing.name, unit |-> ing.unit,
                         quantity |-> qty])

\* main.py:277-284
RECURSIVE AddIngredients(_, _)
AddIngredients(acc, ings) ==
    IF ings = <<>> THEN acc
    ELSE AddIngredients(AddIngredient(acc, Head(ings)), Tail(ings))

\* main.py:273-284 from position i of the visit on: rid is a valid ObjectId text
RECURSIVE IngredientsNeededFrom(_, _, _, _)
IngredientsNeededFrom(acc, visit, i, recipes) ==
    IF i > Len(visit) THEN acc
    ELSE LET r == FindOne(recipes, {j \in DOMAIN recipes : OidStr(recipes[j]._id) = visit[i]})
             \* the dict after this rid; the test on it below only has it computed
             \* before the next rid is visited
             next == IF r = <<>> THEN acc ELSE AddIngredients(acc, r[1].ingredients)
         IN IF Len(next) = 0
            THEN IngredientsNeededFrom(<<>>, visit, i + 1, recipes)
            ELSE IngredientsNeededFrom(next, visit, i + 1, recipes)

\* main.py:272-284
IngredientsNeeded(visit, recipes) == IngredientsNeededFrom(<<>>, visit, 1, recipes)

\* main.py:286-289: have.get(key, 0)
RECURSIVE HaveQty(_, _)
HaveQty(pantry, key) ==
    IF pantry = <<>> THEN 0
    ELSE (IF Key(Head(pantry).name, Head(pantry).unit) = key
          THEN Head(pantry).quantity ELSE 0) + HaveQty(Tail(pantry), key)

\* round(x, 2) of main.py:294 for x > 0: to the nearest 0.01; an exact half goes
\* to the even neighbour
Round2(x) ==
    LET q == x \div 100
        r == x % 100
    IN IF r < 50 THEN q * 100
       ELSE IF r > 50 THEN (q + 1) * 100
       ELSE IF q % 2 = 0 THEN q * 100 ELSE (q + 1) * 100

\* main.py:291-294
RECURSIVE Missing(_, _)
Missing(needed, pantry) ==
    IF needed = <<>> THEN <<>>
    ELSE LET v == Head(needed)
             missing == v.quantity - HaveQty(pantry, v.key)
         IN (IF missing > Eps
             THEN <<[name |-> v.name, unit |-> v.unit, quantity |-> Round2(missing),
                     purchased |-> FALSE]>>
             ELSE <<>>) \o Missing(Tail(needed), pantry)

\* main.py:295: result.sort(key=lambda x: x["name"]), stable
RECURSIVE InsertByName(_, _)
InsertByName(s, x) ==
    IF s = <<>> THEN <<x>>
    ELSE IF StrLess(x.name, Head(s).name) THEN <<x>> \o s
    ELSE <<Head(s)>> \o InsertByName(Tail(s), x)

RECURSIVE SortByName(_)
SortByName(s) ==
    IF s = <<>> THEN <<>>
    ELSE InsertByName(SortByName(SubSeq(s, 1, Len(s) - 1)), s[Len(s)])

\* main.py:267-296 for a stored plan: ObjectId(rid) of main.py:274 raises
\* InvalidId on a text that is no ObjectId, and the request fails
ShoppingList(days, visit, recipes, pantry) ==
    IF \E i \in DOMAIN visit : ~IsValidOid(visit[i])
    THEN [status |-> 500, items |-> <<>>]
    ELSE [status |-> 200,
          items |-> SortByName(Missing(IngredientsNeeded(visit, recipes), pantry))]

\* main.py:263-296
generate_shopping_list(week_start) ==
    LET plan == FindOne(mealplan, ByWeek(mealplan, week_start))
    IN /\ IF plan = <<>>
          THEN response' = [op |-> "shopping_list", arg |-> week_start,
                            status |-> 200, items |-> <<>>]
          ELSE \E visit \in Visits(plan[1].days) :
                   response' = [op |-> "shopping_list", arg |-> week_start]
                               @@ ShoppingList(plan[1].days, visit, recipe, pantryitem)
       /\ UNCHANGED <<recipe, pantryitem, mealplan, nextId, pc, existing>>

(***************************************************************************)
(* The pantry requests.                                                    *)
(***************************************************************************)
NextPantry ==
    \/ \E item \in PantryPayloads : add_pantry_item(item)
    \/ \E id \in 1..MaxId, update \in PantryUpdates : update_pantry(id, update)
    \/ \E id \in 1..MaxId : remove_pantry(id)

SpecPantry == Init /\ [][NextPantry]_vars

(***************************************************************************)
(* The recipe, pantry and suggestion requests.                             *)
(***************************************************************************)
NextSuggest ==
    \/ \E payload \in RecipePayloads : create_recipe(payload)
    \/ \E id \in 1..MaxId, payload \in RecipePayloads : update_recipe(id, payload)
    \/ \E id \in 1..MaxId : delete_recipe(id)
    \/ \E item \in SuggestPantryPayloads : add_pantry_item(item)
    \/ \E id \in 1..MaxId : remove_pantry(id)
    \/ suggest_recipes

SpecSuggest == Init /\ [][NextSuggest]_vars

(***************************************************************************)
(* The meal-plan requests, each served without interruption.               *)
(***************************************************************************)
\* "days" of the MealPlan payloads: a full week, no day at all, a day that is no
\* day of the week with a slot record that gives one field and one unknown key
PlanDays ==
    { OneSlot(OidStr(1)),
      <<>>,
      [d \in {"Funday"} |-> [lunch |-> NotAnId, snack |-> NotAnId]] }

\* the recipes "ab", "a" and the "a" without ingredients
PlanRecipePayloads == {r \in RecipePayloads : r.title # <<66>>}

NextPlan ==
    \/ \E payload \in PlanRecipePayloads : create_recipe(payload)
    \/ \E item \in {Item(<<65>>, Scale, None)} : add_pantry_item(item)
    \/ \E w \in Weeks, days \in PlanDays : save_meal_plan([week_start |-> w, days |-> days])
    \/ \E w \in Weeks : auto_fill_mealplan(w)
    \/ \E w \in Weeks : get_meal_plan(w)

SpecPlan == Init /\ [][NextPlan]_vars

(***************************************************************************)
(* The meal-plan requests of two workers, interleaved.                     *)
(***************************************************************************)
NextRace ==
    \/ \E payload \in {p \in RecipePayloads : p.ingredients = <<>>} : create_recipe(payload)
    \/ \E p \in Procs, w \in Weeks :
           save_find(p, [week_start |-> w, days |-> OneSlot(OidStr(1))])
    \/ \E p \in Procs : save_write(p)
    \/ \E p \in Procs, w \in Weeks : fill_find(p, w)
    \/ \E p \in Procs : fill_write(p)

SpecRace == Init /\ [][NextRace]_vars

(***************************************************************************)
(* The shopping-list requests.                                             *)
(***************************************************************************)
\* the recipes "a" and "B"
ShopRecipePayloads == {r \in RecipePayloads : Len(r.ingredients) >= 2}

\* "A" 1.998, "A" 1.6 with the unit text "None", "b" 0.8 g
ShopPantryPayloads ==
    { Item(<<65>>, 2 * Scale - 20, None), Item(<<65>>, Scale + 6000, UnitNoneText),
      Item(<<98>>, Scale - 2000, UnitG) }

\* plans over the recipe ids: one id in one slot or in all 21, two ids, and
\* slots that hold "" or a text that is no id
ShopPlanDays ==
    {OneSlot(OidStr(n)) : n \in 1..MaxId} \cup {AllSlots(OidStr(n)) : n \in 1..2}
    \cup { [EmptyDays EXCEPT !["Mon"] = Slot3(OidStr(1), OidStr(2), <<>>),
                             !["Sun"] = Slot3(None, OidStr(1), None)],
           [EmptyDays EXCEPT !["Mon"] = Slot3(OidStr(1), None, None),
                             !["Sun"] = Slot3(None, None, NotAnId)] }

NextShop ==
    \/ \E payload \in ShopRecipePayloads : create_recipe(payload)
    \/ \E id \in 1..MaxId : delete_recipe(id)
    \/ \E item \in ShopPantryPayloads : add_pantry_item(item)
    \/ \E days \in ShopPlanDays : save_meal_plan([week_start |-> "W1", days |-> days])
    \/ generate_shopping_list("W1")

SpecShop == Init /\ [][NextShop]_vars

(***************************************************************************)
(* Properties of suggest_recipes.                                          *)
(***************************************************************************)
\* "trimmed, lower-cased", stated without the loops of Strip
TrimmedLower(s) ==
    LET ok(i, j) == /\ \A k \in 1..(i - 1) : IsSpace(s[k])
                    /\ \A k \in (j + 1)..Len(s) : IsSpace(s[k])
                    /\ i <= j => (~IsSpace(s[i]) /\ ~IsSpace(s[j]))
        ij == CHOOSE x \in (1..(Len(s) + 1)) \X (0..Len(s)) : ok(x[1], x[2])
    IN [k \in 1..(IF ij[1] <= ij[2] THEN ij[2] - ij[1] + 1 ELSE 0) |->
           LET c == s[ij[1] + k - 1] IN IF 65 <= c /\ c <= 90 THEN c + 32 ELSE c]

\* the ingredient's name, or one of its own substitutions, names a pantry item
InPantry(ing) ==
    \E j \in DOMAIN pantryitem :
        \/ TrimmedLower(ing.name) = TrimmedLower(pantryitem[j].name)
        \/ \E k \in DOMAIN ing.substitutions :
               TrimmedLower(ing.substitutions[k]) = TrimmedLower(pantryitem[j].name)

RecipeOf(s) == CHOOSE d \in {recipe[i] : i \in DOMAIN recipe} : OidStr(d._id) = s.id

NamesOf(ings) == [i \in 1..Len(ings) |-> ings[i].name]

\* C1: an ingredient is left out of 'needed' iff its trimmed, lower-cased name, or
\* one of its own substitutions trimmed and lower-cased, equals the trimmed,
\* lower-cased name of some pantry item; quantity and unit play no part.
C1_Matching ==
    response.op = "suggest" =>
        \A i \in DOMAIN response.suggestions :
            LET s == response.suggestions[i]
            IN /\ \E x \in DOMAIN recipe : OidStr(recipe[x]._id) = s.id
               /\ s.needed = NamesOf(SelectSeq(RecipeOf(s).ingredients,
                                               LAMBDA ing : ~InPantry(ing)))

\* a suggestion whose recipe has an ingredient available only through a
\* substitution written differently from the pantry name, and one that is needed
C1_Witness ==
    /\ response.op = "suggest"
    /\ \E i \in DOMAIN response.suggestions :
           LET s == response.suggestions[i]
               ings == RecipeOf(s).ingredients
           IN /\ s.needed # <<>>
              /\ Len(s.needed) < Len(ings)
              /\ \E k \in DOMAIN ings :
                     /\ InPantry(ings[k])
                     /\ \A j \in DOMAIN pantryitem :
                            /\ TrimmedLower(ings[k].name) # TrimmedLower(pantryitem[j].name)
                            /\ \A m \in DOMAIN ings[k].substitutions :
                                   ings[k].substitutions[m] # pantryitem[j].name

\* a <= b on text, stated by the first position where they differ
TextLeq(a, b) ==
    \/ a = b
    \/ \E k \in 1..Len(b) :
           /\ \A m \in 1..(k - 1) : m <= Len(a) /\ a[m] = b[m]
           /\ (k > Len(a) \/ a[k] < b[k])

\* C2: one entry per stored recipe, ascending by (missing_count, title); every
\* entry that can be made precedes every entry that cannot.
C2_Sorted ==
    response.op = "suggest" =>
        LET sug == response.suggestions
        IN /\ Len(sug) = Len(recipe)
           /\ \A x \in DOMAIN recipe :
                  Cardinality({i \in DOMAIN sug : sug[i].id = OidStr(recipe[x]._id)}) = 1
           /\ \A i, j \in DOMAIN sug :
                  i < j =>
                      /\ \/ sug[i].missing_count < sug[j].missing_count
                         \/ /\ sug[i].missing_count = sug[j].missing_count
                            /\ TextLeq(sug[i].title, sug[j].title)
                      /\ ~(sug[j].can_make /\ ~sug[i].can_make)
           /\ \A i \in DOMAIN sug : sug[i].can_make <=> sug[i].missing_count = 0

\* two recipes stored in descending title order come back with equal counts in
\* ascending title order, behind nothing that cannot be made
C2_Witness ==
    /\ response.op = "suggest"
    /\ Len(recipe) >= 2
    /\ \E i, j \in DOMAIN response.suggestions :
           /\ i < j
           /\ response.suggestions[i].missing_count = response.suggestions[j].missing_count
           /\ response.suggestions[i].title # response.suggestions[j].title
           /\ \E x, y \in DOMAIN recipe :
                  /\ x > y
                  /\ OidStr(recipe[x]._id) = response.suggestions[i].id
                  /\ OidStr(recipe[y]._id) = response.suggestions[j].id

(***************************************************************************)
(* Properties of the pantry.                                               *)
(***************************************************************************)
\* C10: every stored pantry item has quantity >= 0.
C10_NonNegative == \A i \in DOMAIN pantryitem : pantryitem[i].quantity >= 0

(***************************************************************************)
(* Properties of the meal plans.                                           *)
(***************************************************************************)
\* C3: with at least one recipe stored, auto_fill_mealplan leaves no slot null:
\* the k-th slot visited (Mon..Sun, breakfast, lunch, dinner; k = 0..20) holds
\* the id at position k mod n of the ranked suggestions.
C3_RoundRobin ==
    (response.op = "auto_fill" /\ recipe # <<>>) =>
        LET ranked == Suggestions(recipe, pantryitem)
            n == Len(ranked)
        IN /\ DOMAIN response.days = DaySet
           /\ \A di \in 1..7, si \in 1..3 :
                  LET k == 3 * (di - 1) + (si - 1)
                      v == response.days[Days[di]][Slots[si]]
                  IN v # None /\ v = ranked[(k % n) + 1].id

\* a plan filled from two recipes, the one that can be made stored last
C3_Witness ==
    /\ response.op = "auto_fill"
    /\ Len(recipe) = 2
    /\ response.days["Mon"]["breakfast"] = OidStr(recipe[2]._id)
    /\ response.days["Mon"]["lunch"] = OidStr(recipe[1]._id)
    /\ response.days["Sun"]["dinner"] = OidStr(recipe[2]._id)
    /\ \E i \in DOMAIN recipe : ~Suggestion(recipe[i], Have(pantryitem)).can_make

\* C4: after auto_fill_mealplan(week_start), from any store state, the plan
\* stored under week_start has the 'days' the call returned.
C4_Persisted ==
    response.op = "auto_fill" =>
        LET doc == FindOne(mealplan, ByWeek(mealplan, response.arg))
        IN doc # <<>> /\ doc[1].days = response.days

\* exactly the seven day keys and, under each, exactly the three slot keys
WellShaped(days) ==
    /\ DOMAIN days = {"Mon", "Tue", "Wed", "Thu", "Fri", "Sat", "Sun"}
    /\ \A d \in DOMAIN days : DOMAIN days[d] = {"breakfast", "lunch", "dinner"}

\* C9: every stored meal plan, and every plan returned by get_meal_plan or
\* auto_fill_mealplan, has exactly the seven day keys Mon..Sun and under each
\* day exactly the three slot keys.
C9_Shape ==
    /\ \A i \in DOMAIN mealplan : WellShaped(mealplan[i].days)
    /\ response.op \in {"get_meal_plan", "auto_fill"} => WellShaped(response.days)

\* C8: the mealplan collection holds at most one document per week_start.
C8_OnePerWeek ==
    \A i, j \in DOMAIN mealplan :
        mealplan[i].week_start = mealplan[j].week_start => i = j

(***************************************************************************)
(* Properties of generate_shopping_list.                                   *)
(***************************************************************************)
\* the sum of the values of a function with a finite domain
RECURSIVE Sum(_)
Sum(f) ==
    IF DOMAIN f = {} THEN 0
    ELSE LET x == CHOOSE y \in DOMAIN f : TRUE
         IN f[x] + Sum([y \in DOMAIN f \ {x} |-> f[y]])

\* the plan stored for the week of the last request
StoredPlan == FindOne(mealplan, ByWeek(mealplan, response.arg))

\* <<i, k>>: ingredient k of stored recipe i, for the distinct stored recipes
\* that some slot of the plan references
PlannedIngredients(days) ==
    UNION { {<<i, k>> : k \in DOMAIN recipe[i].ingredients} :
              i \in {j \in DOMAIN recipe :
                        \E d \in DOMAIN days : \E s \in DOMAIN days[d] :
                            days[d][s] = OidStr(recipe[j]._id)} }

IngAt(x) == recipe[x[1]].ingredients[x[2]]

\* needed and have of a (name, unit) pair, an absent quantity counting as 1
NeededOf(days, name, unit) ==
    Sum([x \in {y \in PlannedIngredients(days) :
                    IngAt(y).name = name /\ IngAt(y).unit = unit} |->
            IF IngAt(x).quantity = NoQty THEN Scale ELSE IngAt(x).quantity[1]])

HaveOf(name, unit) ==
    Sum([j \in {i \in DOMAIN pantryitem :
                    pantryitem[i].name = name /\ pantryitem[i].unit = unit} |->
            pantryitem[j].quantity])

NeededByKey(days, key) ==
    Sum([x \in {y \in PlannedIngredients(days) :
                    Key(IngAt(y).name, IngAt(y).unit) = key} |->
            IF IngAt(x).quantity \in {NoQty, <<0>>} THEN Scale ELSE IngAt(x).quantity[1]])

HaveByKey(key) ==
    Sum([j \in {i \in DOMAIN pantryitem :
                    Key(pantryitem[i].name, pantryitem[i].unit) = key} |->
            pantryitem[j].quantity])

Referenced(days) ==
    {days[d][s] : d \in DOMAIN days, s \in SlotSet} \ {None, <<>>}

\* C6: the shopping list depends only on the set of recipe ids the plan
\* references: the list returned for the stored plan is the list of any other
\* plan that references the same ids, in particular one recipe in all 21 slots
\* gives what that recipe in exactly one slot gives.
C6_SlotRepetition ==
    (response.op = "shopping_list" /\ StoredPlan # <<>>) =>
        \A other \in ShopPlanDays :
            Referenced(other) = Referenced(StoredPlan[1].days) =>
                \E visit \in Visits(other) :
                    ShoppingList(other, visit, recipe, pantryitem).items = response.items

\* the list of a plan that holds one stored recipe in all 21 slots, not empty
C6_Witness ==
    /\ response.op = "shopping_list"
    /\ StoredPlan # <<>>
    /\ response.items # <<>>
    /\ \E i \in DOMAIN recipe : StoredPlan[1].days = AllSlots(OidStr(recipe[i]._id))

\* the plan with every slot that references no stored recipe set to None
OnlyExisting(days) ==
    [d \in DOMAIN days |->
        [s \in DOMAIN days[d] |->
            IF \E i \in DOMAIN recipe : OidStr(recipe[i]._id) = days[d][s]
            THEN days[d][s] ELSE None]]

\* C7: generate_shopping_list never ends in an error; slots that hold the id of
\* a deleted recipe or a text that is no id are skipped as if null, and with no
\* plan stored the list is empty.
C7_NoError ==
    response.op = "shopping_list" =>
        /\ response.status = 200
        /\ StoredPlan = <<>> => response.items = <<>>
        /\ StoredPlan # <<>> =>
               \E visit \in Visits(OnlyExisting(StoredPlan[1].days)) :
                   response.items =
                       ShoppingList(OnlyExisting(StoredPlan[1].days), visit,
                                    recipe, pantryitem).items
====
